---- MODULE Spec2Model ----
(***************************************************************************)
(* The three sample graphs (essay evaluator, quadratic solver, review      *)
(* sentiment workflow) and the graph engine that runs them.                *)
(*                                                                         *)
(* The node bodies, the branch functions, the edge registries, the state   *)
(* schemas and the form handlers are translated from the Python sources.   *)
(* The engine behind StateGraph.invoke is an imported library whose code   *)
(* is not part of the sources; its traversal (work-set, snapshot, merge,   *)
(* edge resolution, join barrier, failure) follows the design document.    *)
(***************************************************************************)
EXTENDS Integers, Sequences, FiniteSets, TLC

VARIABLES graph, input, llm, status, state, scheduled, running, snap,
          fired, started, executed, error, results, ui

vars == <<graph, input, llm, status, state, scheduled, running, snap,
          fired, started, executed, error, results, ui>>

(* ------------------------------ bounds --------------------------------- *)
\* scores handed out by the evaluation model range over 0..MaxScore
MaxScore == 2
\* coefficients a, b, c range over -MaxCoef..MaxCoef
MaxCoef == 2
\* number of times the form button is pressed with the same input
MaxRuns == 2
\* number of essay nodes whose external model call raises
MaxFailing == 1

(* --------------------------- names and markers ------------------------- *)
START == "__start__"
END == "__end__"
NoNode == "none"

Graphs == {"essay", "quad", "review"}

Evaluators == {"evaluate_language", "evaluate_analysis", "evaluate_thought"}
EssayNodes == Evaluators \cup {"final_evaluation"}
RootNodes == {"real_roots", "repeated_roots", "no_real_roots"}
QuadNodes == {"show_equation", "calculate_discriminant"} \cup RootNodes
ReviewNodes == {"find_sentiment", "positive_response", "run_diagnosis",
                "negative_response"}
AllNodes == EssayNodes \cup QuadNodes \cup ReviewNodes

Nodes(g) ==
  CASE g = "essay" -> EssayNodes
    [] g = "quad" -> QuadNodes
    [] g = "review" -> ReviewNodes

(* ------------------------------- edges --------------------------------- *)
EssayEdgesNoJoin ==
  { <<START, "evaluate_language">>,
    <<START, "evaluate_analysis">>,
    <<START, "evaluate_thought">>,
    <<"evaluate_language", "final_evaluation">>,
    <<"evaluate_analysis", "final_evaluation">>,
    <<"evaluate_thought", END>>,
    <<"final_evaluation", END>> }

EssayEdges ==
  { <<START, "evaluate_language">>,
    <<START, "evaluate_analysis">>,
    <<START, "evaluate_thought">>,
    <<"evaluate_language", "final_evaluation">>,
    <<"evaluate_analysis", "final_evaluation">>,
    <<"evaluate_thought", "final_evaluation">>,
    <<"final_evaluation", END>> }

QuadEdges ==
  { <<START, "show_equation">>,
    <<"show_equation", "calculate_discriminant">>,
    <<"real_roots", END>>,
    <<"repeated_roots", END>>,
    <<"no_real_roots", END>> }

ReviewEdgesNoEnd ==
  { <<START, "find_sentiment">>,
    <<"positive_response", END>>,
    <<"run_diagnosis", "negative_response">> }

ReviewEdges ==
  { <<START, "find_sentiment">>,
    <<"positive_response", END>>,
    <<"run_diagnosis", "negative_response">>,
    <<"negative_response", END>> }

Edges(g) ==
  CASE g = "essay" -> EssayEdges
    [] g = "quad" -> QuadEdges
    [] g = "review" -> ReviewEdges

\* nodes that carry a conditional edge
CondSources(g) ==
  CASE g = "essay" -> {}
    [] g = "quad" -> {"calculate_discriminant"}
    [] g = "review" -> {"find_sentiment"}

\* the mapping given to add_conditional_edges of the quadratic graph
QuadMapping ==
  [k \in RootNodes |-> k]

(* --------------------------- state container --------------------------- *)
EmptyState == [k \in {} |-> 0]

Has(s, k) == k \in DOMAIN s

\* fields declared with an accumulating (list concatenation) reducer
AccumulatingNone == {}

Accumulating == {"individual_scores"}

\* merge of a partial update into the running state
Merge(s, p) ==
  [k \in (DOMAIN s) \cup (DOMAIN p) |->
     IF k \in DOMAIN p
       THEN IF k \in Accumulating /\ k \in DOMAIN s
              THEN s[k] \o p[k]
              ELSE p[k]
       ELSE s[k]]

RECURSIVE SumSeq(_)
SumSeq(q) == IF q = <<>> THEN 0 ELSE Head(q) + SumSeq(Tail(q))

(* ------------------------- outcome of a node body ---------------------- *)
Ok(update) == [raise |-> "none", update |-> update]
Raise(exc) == [raise |-> exc, update |-> EmptyState]

(* --------------------- external model collaborators -------------------- *)
\* the evaluation model: feedback text and score for one evaluator prompt
Feedback(n) == "feedback of " \o n

ModelRaises(n) == n \in llm.failing

\* words whose presence in a review the mock models test for
Keywords == {"love", "great", "late", "delay", "broken"}

\* MockStructuredModel.invoke(prompt).sentiment; words = the keywords that
\* occur in the lower-cased prompt (the prompt template holds none of them)
MockSentimentAlwaysNegative(words) == "negative"

MockSentiment(words) ==
  IF "love" \in words \/ "great" \in words THEN "positive" ELSE "negative"

\* MockStructuredModel2.invoke(prompt).model_dump()
MockDiagnosis(words) ==
  IF "late" \in words \/ "delay" \in words
    THEN [issue_type |-> "delivery delay", tone |-> "frustrated",
          urgency |-> "high"]
    ELSE IF "broken" \in words
      THEN [issue_type |-> "damaged product", tone |-> "angry",
            urgency |-> "high"]
      ELSE [issue_type |-> "general dissatisfaction", tone |-> "upset",
            urgency |-> "medium"]

\* MockModel.invoke(prompt).content
MockContent(thankYouPrompt) ==
  IF thankYouPrompt THEN "thank-you letter" ELSE "apology and escalation"

(* ------------------------- essay graph node bodies --------------------- *)
evaluate_language(s) ==
  IF ~Has(s, "essay") THEN Raise("KeyError")
  ELSE IF ModelRaises("evaluate_language") THEN Raise("ModelError")
  ELSE Ok("language_feedback" :> Feedback("evaluate_language")
          @@ "individual_scores" :> <<llm.score["evaluate_language"]>>)

evaluate_analysis_no_score(s) ==
  IF ~Has(s, "essay") THEN Raise("KeyError")
  ELSE IF ModelRaises("evaluate_analysis") THEN Raise("ModelError")
  ELSE Ok("analysis_feedback" :> Feedback("evaluate_analysis"))

evaluate_analysis(s) ==
  IF ~Has(s, "essay") THEN Raise("KeyError")
  ELSE IF ModelRaises("evaluate_analysis") THEN Raise("ModelError")
  ELSE Ok("analysis_feedback" :> Feedback("evaluate_analysis")
          @@ "individual_scores" :> <<llm.score["evaluate_analysis"]>>)

evaluate_thought_wrong_key(s) ==
  IF ~Has(s, "essay") THEN Raise("KeyError")
  ELSE IF ModelRaises("evaluate_thought") THEN Raise("ModelError")
  ELSE Ok("analysis_feedback" :> Feedback("evaluate_thought")
          @@ "individual_scores" :> <<llm.score["evaluate_thought"]>>)

evaluate_thought(s) ==
  IF ~Has(s, "essay") THEN Raise("KeyError")
  ELSE IF ModelRaises("evaluate_thought") THEN Raise("ModelError")
  ELSE Ok("clarity_feedback" :> Feedback("evaluate_thought")
          @@ "individual_scores" :> <<llm.score["evaluate_thought"]>>)

final_evaluation(s) ==
  IF \/ ~Has(s, "language_feedback")
     \/ ~Has(s, "analysis_feedback")
     \/ ~Has(s, "clarity_feedback")
    THEN Raise("KeyError")
  ELSE IF ModelRaises("final_evaluation") THEN Raise("ModelError")
  ELSE IF ~Has(s, "individual_scores") THEN Raise("KeyError")
  ELSE IF Len(s["individual_scores"]) = 0 THEN Raise("ZeroDivisionError")
  ELSE Ok("overall_feedback" :> <<s["language_feedback"],
                                  s["analysis_feedback"],
                                  s["clarity_feedback"]>>
          @@ "avg_score" :> [sum |-> SumSeq(s["individual_scores"]),
                             count |-> Len(s["individual_scores"])])

(* ----------------------- quadratic graph node bodies ------------------- *)
NoRealRootsMessage == "No real roots exist (discriminant < 0)."

show_equation(s) ==
  Ok("equation" :> <<s["a"], s["b"], s["c"]>>)

calculate_discriminant(s) ==
  Ok("discriminant" :> (s["b"] * s["b"] - (4 * s["a"] * s["c"])))

\* the roots are kept as the exact quotient (-b +/- sqrt(disc)) / (2a)
real_roots_guarded(s) ==
  IF s["discriminant"] < 0 THEN Raise("ValueError")
  ELSE Ok("result" :> [kind |-> "roots", text |-> "The roots are",
                       num |-> -s["b"], disc |-> s["discriminant"],
                       den |-> 2 * s["a"]])

real_roots(s) ==
  IF s["discriminant"] < 0 THEN Raise("ValueError")
  ELSE IF 2 * s["a"] = 0 THEN Raise("ZeroDivisionError")
  ELSE Ok("result" :> [kind |-> "roots", text |-> "The roots are",
                       num |-> -s["b"], disc |-> s["discriminant"],
                       den |-> 2 * s["a"]])

repeated_roots(s) ==
  IF 2 * s["a"] = 0 THEN Raise("ZeroDivisionError")
  ELSE Ok("result" :> [kind |-> "repeated", text |-> "The repeated root is",
                       num |-> -s["b"], disc |-> 0, den |-> 2 * s["a"]])

no_real_roots(s) ==
  Ok("result" :> [kind |-> "message", text |-> NoRealRootsMessage,
                  num |-> 0, disc |-> 0, den |-> 1])

check_condition_ge(s) ==
  IF s["discriminant"] >= 0 THEN "real_roots"
  ELSE IF s["discriminant"] = 0 THEN "repeated_roots"
  ELSE "no_real_roots"

check_condition(s) ==
  IF s["discriminant"] > 0 THEN "real_roots"
  ELSE IF s["discriminant"] = 0 THEN "repeated_roots"
  ELSE "no_real_roots"

(* ------------------------ review graph node bodies --------------------- *)
find_sentiment(s) ==
  IF ~Has(s, "review") THEN Raise("KeyError")
  ELSE Ok("sentiment" :> MockSentiment(s["review"]))

check_sentiment(s) ==
  IF s["sentiment"] = "positive" THEN "positive_response"
  ELSE "run_diagnosis"

positive_response(s) ==
  IF ~Has(s, "review") THEN Raise("KeyError")
  ELSE Ok("response" :> MockContent(TRUE))

run_diagnosis(s) ==
  IF ~Has(s, "review") THEN Raise("KeyError")
  ELSE Ok("diagnosis" :> MockDiagnosis(s["review"]))

negative_response(s) ==
  IF ~Has(s, "diagnosis") THEN Raise("KeyError")
  ELSE Ok("response" :> MockContent(FALSE))

(* -------------------------- node registry ------------------------------ *)
\* add_node: the function registered under each name
NodeFn(n, s) ==
  CASE n = "evaluate_language" -> evaluate_language(s)
    [] n = "evaluate_analysis" -> evaluate_analysis(s)
    [] n = "evaluate_thought" -> evaluate_thought(s)
    [] n = "final_evaluation" -> final_evaluation(s)
    [] n = "show_equation" -> show_equation(s)
    [] n = "calculate_discriminant" -> calculate_discriminant(s)
    [] n = "real_roots" -> real_roots(s)
    [] n = "repeated_roots" -> repeated_roots(s)
    [] n = "no_real_roots" -> no_real_roots(s)
    [] n = "find_sentiment" -> find_sentiment(s)
    [] n = "positive_response" -> positive_response(s)
    [] n = "run_diagnosis" -> run_diagnosis(s)
    [] n = "negative_response" -> negative_response(s)

\* add_conditional_edges: destination chosen for source n in state s
Route(g, n, s) ==
  CASE g = "quad" -> QuadMapping[check_condition(s)]
    [] g = "review" -> check_sentiment(s)

(* ------------------------------ form input ----------------------------- *)
Coefs == (-MaxCoef)..MaxCoef

Inputs(g) ==
  CASE g = "essay" -> [blank : BOOLEAN]
    [] g = "quad" -> [a : Coefs, b : Coefs, c : Coefs]
    [] g = "review" ->
         {[blank |-> TRUE, words |-> {}]}
           \cup [blank : {FALSE}, words : SUBSET Keywords]

\* the text-area check of the essay and review handlers
Blank(g, in) == g \in {"essay", "review"} /\ in.blank

\* initial_state built by the button handler
InitialStateCarried(g, in) ==
  CASE g = "essay" ->
         IF results # <<>> /\ results[Len(results)].outcome = "ok"
           THEN ("essay" :> "essay text"
                 @@ "individual_scores" :>
                      results[Len(results)].state["individual_scores"])
           ELSE ("essay" :> "essay text")
    [] g = "quad" -> ("a" :> in.a @@ "b" :> in.b @@ "c" :> in.c)
    [] g = "review" -> ("review" :> in.words)

InitialState(g, in) ==
  CASE g = "essay" -> ("essay" :> "essay text")
    [] g = "quad" -> ("a" :> in.a @@ "b" :> in.b @@ "c" :> in.c)
    [] g = "review" -> ("review" :> in.words)

\* the handler indexes the returned state: a missing key or a short list
\* raises in the display code
DisplayRaises(g, r) ==
  CASE g = "essay" ->
         \/ ~Has(r, "individual_scores")
         \/ Len(r["individual_scores"]) < 3
         \/ ~({"language_feedback", "analysis_feedback", "clarity_feedback",
               "overall_feedback", "avg_score"} \subseteq DOMAIN r)
    [] g = "quad" -> ~({"equation", "discriminant", "result"}
                         \subseteq DOMAIN r)
    [] g = "review" -> ~Has(r, "response")

\* what the handler puts on the page from a returned state
Display(g, r) ==
  CASE g = "essay" ->
         ("Language" :> r["individual_scores"][1]
          @@ "Analysis" :> r["individual_scores"][2]
          @@ "Clarity" :> r["individual_scores"][3])
    [] g = "quad" -> ("plot" :> IF r["discriminant"] >= 0 THEN 1 ELSE 0)
    [] g = "review" -> ("diagnosis" :> IF Has(r, "diagnosis") THEN 1 ELSE 0)

Models(g) ==
  IF g = "essay"
    THEN [score : [Evaluators -> 0..MaxScore],
          failing : {F \in SUBSET EssayNodes : Cardinality(F) <= MaxFailing}]
    ELSE {[score |-> [e \in Evaluators |-> 0], failing |-> {}]}

(* -------------------------------- engine ------------------------------- *)
ZeroCount == [n \in AllNodes |-> 0]
NoSnapshots == [n \in AllNodes |-> EmptyState]

OkResult(s) == [outcome |-> "ok", node |-> NoNode, state |-> s]
ErrResult(n) == [outcome |-> "error", node |-> n, state |-> EmptyState]

\* a join waits for every static edge that feeds it
BarrierOpen(n) ==
  \A e \in Edges(graph) : e[2] = n => e \in fired

\* destinations scheduled when n has completed with merged state s
Targets(n, s) ==
  {e[2] : e \in {d \in Edges(graph) : d[1] = n}}
    \cup (IF n \in CondSources(graph) THEN {Route(graph, n, s)} ELSE {})

AllPathsAtEnd ==
  /\ \A n \in Nodes(graph) : executed[n] > 0 => \E e \in fired : e[1] = n
  /\ \E e \in fired : e[2] = END

Init ==
  /\ graph \in Graphs
  /\ input \in Inputs(graph)
  /\ llm \in Models(graph)
  /\ status = "PENDING"
  /\ state = EmptyState
  /\ scheduled = {}
  /\ running = {}
  /\ snap = NoSnapshots
  /\ fired = {}
  /\ started = ZeroCount
  /\ executed = ZeroCount
  /\ error = NoNode
  /\ results = <<>>
  /\ ui = [view |-> "form", shown |-> EmptyState]

\* the button is pressed on an empty text area
Warn ==
  /\ status = "PENDING"
  /\ ui.view = "form"
  /\ Blank(graph, input)
  /\ ui' = [view |-> "warning", shown |-> EmptyState]
  /\ UNCHANGED <<graph, input, llm, status, state, scheduled, running, snap,
                 fired, started, executed, error, results>>

\* the button handler calls workflow.invoke(initial_state)
Invoke ==
  /\ status \in {"PENDING", "DONE", "FAILED"}
  /\ Len(results) < MaxRuns
  /\ ~Blank(graph, input)
  /\ status' = "RUNNING"
  /\ state' = InitialState(graph, input)
  /\ scheduled' = {e[2] : e \in {d \in Edges(graph) : d[1] = START}}
  /\ fired' = {d \in Edges(graph) : d[1] = START}
  /\ running' = {}
  /\ snap' = NoSnapshots
  /\ started' = ZeroCount
  /\ executed' = ZeroCount
  /\ error' = NoNode
  /\ ui' = [view |-> "spinner", shown |-> EmptyState]
  /\ UNCHANGED <<graph, input, llm, results>>

\* a scheduled node starts on a snapshot of the merged state
StartNode(n) ==
  /\ status = "RUNNING"
  /\ n \in scheduled
  /\ n \notin running
  /\ BarrierOpen(n)
  /\ scheduled' = scheduled \ {n}
  /\ running' = running \cup {n}
  /\ snap' = [snap EXCEPT ![n] = state]
  /\ started' = [started EXCEPT ![n] = @ + 1]
  /\ UNCHANGED <<graph, input, llm, status, state, fired, executed, error,
                 results, ui>>

\* a running node returns its update: merge, then resolve outgoing edges
CompleteNode(n) ==
  /\ status = "RUNNING"
  /\ n \in running
  /\ LET out == NodeFn(n, snap[n])
         merged == Merge(state, out.update)
         targets == Targets(n, merged)
     IN /\ out.raise = "none"
        /\ targets \subseteq Nodes(graph) \cup {END}
        /\ state' = merged
        /\ fired' = fired \cup {<<n, t>> : t \in targets}
        /\ scheduled' = scheduled \cup (targets \ {END})
  /\ running' = running \ {n}
  /\ executed' = [executed EXCEPT ![n] = @ + 1]
  /\ UNCHANGED <<graph, input, llm, status, snap, started, error, results,
                 ui>>

\* a running node raises: the invoke call fails and the handler sees the
\* exception (only the quadratic handler catches it)
FailNode(n) ==
  /\ status = "RUNNING"
  /\ n \in running
  /\ LET out == NodeFn(n, snap[n])
     IN \/ out.raise # "none"
        \/ /\ out.raise = "none"
           /\ ~(Targets(n, Merge(state, out.update))
                 \subseteq Nodes(graph) \cup {END})
  /\ status' = "FAILED"
  /\ error' = n
  /\ scheduled' = {}
  /\ results' = Append(results, ErrResult(n))
  /\ ui' = [view |-> IF graph = "quad" THEN "error" ELSE "exception",
            shown |-> EmptyState]
  /\ UNCHANGED <<graph, input, llm, state, running, snap, fired, started,
                 executed>>

\* every path has reached END: invoke returns and the handler displays
Return ==
  /\ status = "RUNNING"
  /\ scheduled = {}
  /\ running = {}
  /\ AllPathsAtEnd
  /\ status' = "DONE"
  /\ results' = Append(results, OkResult(state))
  /\ ui' = IF DisplayRaises(graph, state)
             THEN [view |-> IF graph = "quad" THEN "error" ELSE "exception",
                   shown |-> EmptyState]
             ELSE [view |-> "results", shown |-> Display(graph, state)]
  /\ UNCHANGED <<graph, input, llm, state, scheduled, running, snap, fired,
                 started, executed, error>>

Step == \E n \in AllNodes : StartNode(n) \/ CompleteNode(n) \/ FailNode(n)

Next ==
  \/ Warn
  \/ Invoke
  \/ \E n \in AllNodes : StartNode(n)
  \/ \E n \in AllNodes : CompleteNode(n)
  \/ \E n \in AllNodes : FailNode(n)
  \/ Return

Spec == Init /\ [][Next]_vars

\* the engine keeps running enabled nodes and returns when none is left
LiveSpec ==
  /\ Init
  /\ [][Next]_vars
  /\ WF_vars(Step)
  /\ WF_vars(Return)

(* ============================ properties =============================== *)
ScoresOf(s) == IF Has(s, "individual_scores") THEN s["individual_scores"]
               ELSE <<>>

FeedbackKeys == {"language_feedback", "analysis_feedback", "clarity_feedback"}

\* C1: join barrier of the essay graph. Once final_evaluation has started,
\* all three evaluators have completed and the snapshot it reads holds the
\* language, analysis and clarity feedback they wrote.
JoinBarrier ==
  (graph = "essay" /\ started["final_evaluation"] > 0) =>
     /\ \A e \in Evaluators : executed[e] >= 1
     /\ FeedbackKeys \subseteq DOMAIN snap["final_evaluation"]
     /\ snap["final_evaluation"]["language_feedback"]
          = Feedback("evaluate_language")
     /\ snap["final_evaluation"]["analysis_feedback"]
          = Feedback("evaluate_analysis")
     /\ snap["final_evaluation"]["clarity_feedback"]
          = Feedback("evaluate_thought")

JoinBarrierWitness ==
  /\ graph = "essay"
  /\ "final_evaluation" \in running
  /\ FeedbackKeys \subseteq DOMAIN snap["final_evaluation"]

\* C2: no lost updates on the accumulating field. In every state of an essay
\* traversal individual_scores holds one entry per completed evaluator, and
\* exactly three in the returned state.
AccumulateNoLostUpdates ==
  (graph = "essay" /\ status # "PENDING") =>
     /\ Len(ScoresOf(state)) = executed["evaluate_language"]
                                + executed["evaluate_analysis"]
                                + executed["evaluate_thought"]
     /\ status = "DONE" => Len(ScoresOf(state)) = 3

AccumulateWitness ==
  /\ graph = "essay"
  /\ status = "DONE"
  /\ Len(ScoresOf(state)) = 3
  /\ Len(ScoresOf(snap["evaluate_thought"])) = 0
  /\ Len(ScoresOf(snap["evaluate_language"])) = 0

Discriminant == input.b * input.b - 4 * input.a * input.c

Routed == {n \in RootNodes : n \in scheduled \/ started[n] > 0}

\* C3: conditional routing of the quadratic graph. Before
\* calculate_discriminant completes no root node is routed to; afterwards
\* exactly one is, the one matching the sign of b*b - 4ac, the other two
\* never start, and a finished no_real_roots run carries the fixed message.
ConditionalRouting ==
  graph = "quad" =>
     /\ executed["calculate_discriminant"] = 0 => Routed = {}
     /\ executed["calculate_discriminant"] > 0 =>
          /\ Discriminant > 0 => Routed = {"real_roots"}
          /\ Discriminant = 0 => Routed = {"repeated_roots"}
          /\ Discriminant < 0 => Routed = {"no_real_roots"}
     /\ \A n \in RootNodes : started[n] <= 1
     /\ (status = "DONE" /\ Discriminant < 0) =>
          /\ executed["no_real_roots"] = 1
          /\ state["result"].text = NoRealRootsMessage

ConditionalRoutingWitness ==
  /\ graph = "quad"
  /\ status = "DONE"
  /\ Discriminant < 0
  /\ executed["no_real_roots"] = 1
  /\ started["real_roots"] = 0
  /\ started["repeated_roots"] = 0

PositiveOnly ==
  /\ executed["find_sentiment"] = 1
  /\ executed["positive_response"] = 1
  /\ Has(snap["positive_response"], "sentiment")
  /\ started["run_diagnosis"] = 0
  /\ started["negative_response"] = 0
  /\ ~Has(state, "diagnosis")

ThroughDiagnosis ==
  /\ executed["find_sentiment"] = 1
  /\ executed["run_diagnosis"] = 1
  /\ executed["negative_response"] = 1
  /\ Has(snap["negative_response"], "diagnosis")
  /\ started["positive_response"] = 0
  /\ Has(state, "diagnosis")

\* C4 as stated: every review containing "great" takes the positive-only
\* path and has no diagnosis; every review containing "broken" goes through
\* run_diagnosis and negative_response with issue_type "damaged product".
SentimentRoutingAsStated ==
  (graph = "review" /\ status = "DONE") =>
     /\ "great" \in input.words => PositiveOnly
     /\ "broken" \in input.words =>
          /\ ThroughDiagnosis
          /\ state["diagnosis"].issue_type = "damaged product"

\* C4 amended: a review containing "great" takes the positive-only path and
\* has no diagnosis; a review containing "broken" and neither "love" nor
\* "great" goes through run_diagnosis then negative_response, and its
\* issue_type is "damaged product" when it contains neither "late" nor
\* "delay" (it is "delivery delay" when it does).
SentimentRouting ==
  (graph = "review" /\ status = "DONE") =>
     /\ "great" \in input.words => PositiveOnly
     /\ ("broken" \in input.words
           /\ input.words \cap {"love", "great"} = {}) =>
          /\ ThroughDiagnosis
          /\ input.words \cap {"late", "delay"} = {} =>
               state["diagnosis"].issue_type = "damaged product"
          /\ input.words \cap {"late", "delay"} # {} =>
               state["diagnosis"].issue_type = "delivery delay"

SentimentRoutingWitness ==
  /\ graph = "review"
  /\ status = "DONE"
  /\ input.words = {"broken"}
  /\ ThroughDiagnosis
  /\ state["diagnosis"].issue_type = "damaged product"

\* C5: in the essay graph no node starts or completes more than once, and a
\* finished invoke has run each of the four nodes exactly once and holds
\* every field each of them writes (three feedbacks, three scores, the
\* overall feedback and the average).
EveryNodeOnce ==
  graph = "essay" =>
     /\ \A n \in EssayNodes : started[n] <= 1 /\ executed[n] <= 1
     /\ status = "DONE" =>
          /\ \A n \in EssayNodes : started[n] = 1 /\ executed[n] = 1
          /\ state["language_feedback"] = Feedback("evaluate_language")
          /\ state["analysis_feedback"] = Feedback("evaluate_analysis")
          /\ state["clarity_feedback"] = Feedback("evaluate_thought")
          /\ Len(ScoresOf(state)) = 3
          /\ Has(state, "overall_feedback")
          /\ state["avg_score"].count = 3
          /\ state["avg_score"].sum = llm.score["evaluate_language"]
                                       + llm.score["evaluate_analysis"]
                                       + llm.score["evaluate_thought"]

EveryNodeOnceWitness ==
  /\ graph = "essay"
  /\ status = "DONE"
  /\ \A n \in EssayNodes : executed[n] = 1
  /\ Has(state, "overall_feedback")

\* the non-accumulating field a node writes
OwnKey(n) ==
  CASE n = "evaluate_language" -> "language_feedback"
    [] n = "evaluate_analysis" -> "analysis_feedback"
    [] n = "evaluate_thought" -> "clarity_feedback"
    [] n = "final_evaluation" -> "overall_feedback"
    [] n = "show_equation" -> "equation"
    [] n = "calculate_discriminant" -> "discriminant"
    [] n \in RootNodes -> "result"
    [] n = "find_sentiment" -> "sentiment"
    [] n = "run_diagnosis" -> "diagnosis"
    [] n \in {"positive_response", "negative_response"} -> "response"

\* C6: a failing node aborts the whole invoke. A quadratic run with a = 0
\* (division by 2a in real_roots or repeated_roots) never reaches DONE and
\* fails naming the node routed to; in every failed traversal the outcome
\* names a node that was running, that node's update is not in the state,
\* none of its successors has started, and nothing is displayed as result.
NodeFailureAborts ==
  /\ (graph = "quad" /\ input.a = 0) =>
        /\ status # "DONE"
        /\ status = "FAILED" =>
             error = (IF input.b # 0 THEN "real_roots" ELSE "repeated_roots")
  /\ (status = "DONE") => error = NoNode /\ results[Len(results)].outcome = "ok"
  /\ (status = "FAILED") =>
        /\ error \in Nodes(graph)
        /\ started[error] = 1
        /\ executed[error] = 0
        /\ ~Has(state, OwnKey(error))
        /\ Len(ScoresOf(state)) = executed["evaluate_language"]
                                   + executed["evaluate_analysis"]
                                   + executed["evaluate_thought"]
        /\ \A e \in Edges(graph) : e[1] = error /\ e[2] # END =>
              started[e[2]] = 0
        /\ results[Len(results)] = ErrResult(error)
        /\ ui.view \in {"error", "exception"}
        /\ ui.shown = EmptyState

NodeFailureAbortsWitness ==
  /\ graph = "quad"
  /\ input.a = 0
  /\ input.b # 0
  /\ status = "FAILED"
  /\ error = "real_roots"
  /\ ~Has(state, "result")

\* program constant: the largest score the evaluation schema admits
MaxGrade == 10

ScoreBag(q) ==
  [v \in 0..MaxGrade |-> Cardinality({i \in DOMAIN q : q[i] = v})]

\* a final state with the order of the accumulated scores forgotten
Unordered(s) ==
  IF Has(s, "individual_scores")
    THEN [s EXCEPT !["individual_scores"] = ScoreBag(@)]
    ELSE s

OkRuns == {i \in DOMAIN results : results[i].outcome = "ok"}

Termination ==
  /\ (status = "RUNNING") ~> (status \in {"DONE", "FAILED"})
  /\ [](status = "FAILED" => error \in Nodes(graph)
                             /\ NodeFn(error, snap[error]).raise # "none")
  /\ [](status = "DONE" =>
          /\ scheduled = {} /\ running = {} /\ AllPathsAtEnd
          /\ \A n \in Nodes(graph) :
                started[n] > 0 => NodeFn(n, snap[n]).raise = "none")
  /\ [][(status = "DONE" /\ status' = "DONE") =>
          (started' = started /\ executed' = executed /\ state' = state)]_vars

TerminationWitness ==
  /\ graph = "review"
  /\ status = "DONE"
  /\ executed["negative_response"] = 1
  /\ Len(results) = MaxRuns

Concurrent == running \cup {n \in scheduled : BarrierOpen(n)}

UpdateKeys(n) ==
  DOMAIN NodeFn(n, IF n \in running THEN snap[n] ELSE state).update

\* C9: two distinct nodes that are running or ready to run at the same time
\* write no common key other than the accumulating individual_scores.
DisjointWrites ==
  \A n1, n2 \in Concurrent :
     n1 # n2 => (UpdateKeys(n1) \cap UpdateKeys(n2)) \subseteq
                   {"individual_scores"}

DisjointWritesWitness ==
  /\ graph = "essay"
  /\ {"evaluate_analysis", "evaluate_thought"} \subseteq running
  /\ UpdateKeys("evaluate_analysis") \cap UpdateKeys("evaluate_thought")
       = {"individual_scores"}

\* C10: in every finished essay run individual_scores lists the language
\* score first, the analysis score second and the clarity score third, so
\* the page shows each score under its own label.
ScoreOrder ==
  (graph = "essay" /\ status = "DONE") =>
     /\ state["individual_scores"] = <<llm.score["evaluate_language"],
                                       llm.score["evaluate_analysis"],
                                       llm.score["evaluate_thought"]>>
     /\ ui.shown["Language"] = llm.score["evaluate_language"]
     /\ ui.shown["Analysis"] = llm.score["evaluate_analysis"]
     /\ ui.shown["Clarity"] = llm.score["evaluate_thought"]

====
